---- MODULE Spec2Model ----
(***************************************************************************)
(* Model of the in-process rate limiter of Expense_Tracker:                *)
(*   web/middleware/ratelimiter/limiter.py     RateLimitExceeded,          *)
(*                                             RateLimitConfig, RateLimiter*)
(*   web/middleware/ratelimiter/middleware.py  RateLimitMiddleware         *)
(*   web/api/expenses/views.py                 expense_rate_limit          *)
(*                                                                         *)
(* Time is counted in ticks of 1/TicksPerSecond second, so that the        *)
(* float-to-int truncation of retry_after is visible.  datetime.now() is   *)
(* read twice during one is_allowed call (once by is_allowed, once by      *)
(* _clean_old_requests); the second reading is never earlier than the      *)
(* first, and may be later.                                                *)
(*                                                                         *)
(* Further parts, each with a specification of its own:                    *)
(*   SpecConcurrent  is_allowed calls running as coroutines                *)
(*   SpecApp         the limiter instances of web/application.py           *)
(*   SpecKey         RateLimitConfig.get_cache_key over more requests      *)
(*   SpecData        web/api/expenses/views.py, web/api/categories/views.py*)
(*                   and the registration of db/models/users.py            *)
(*   SpecLimits      a limiter over the arguments of RateLimitConfig       *)
(*   SpecCreate      create_category calls running as coroutines           *)
(***************************************************************************)
EXTENDS Integers, Sequences, FiniteSets, TLC

VARIABLES config, exclude_paths, clock, cache, last, seen, isolated,
          given, recent,
          tasks, admits,
          stores, inflight,
          users, categories, expenses, next_id, reply

(* The variables of the constructor arguments, of the coroutines, of the   *)
(* application's limiter instances and of the database.                    *)
limitVars == <<given, recent>>
taskVars == <<tasks, admits>>
appVars == <<stores, inflight>>
dataVars == <<users, categories, expenses, next_id, reply>>

vars == <<config, exclude_paths, clock, cache, last, seen, isolated,
          limitVars, taskVars, appVars, dataVars>>

-----------------------------------------------------------------------------
(* Bounds of the model *)

TicksPerSecond == 2
MaxLimit == 2
WindowSize == 1
MaxTime == 4
MaxSkew == 1
MaxHalfWindows == 2

(* Program constants *)

HTTP_429_TOO_MANY_REQUESTS == 429
ExpenseRequestsLimit == 50
ExpenseAuthRequestsLimit == 200
ExpenseWindowSize == 60

None == "None"

-----------------------------------------------------------------------------
(* Requests: what the limiter reads of a fastapi Request.                  *)
(*   user      request.state.user.id as a string, None when no user is set *)
(*   forwarded the X-Forwarded-For header, None when absent                *)
(*   client    request.client.host, None when request.client is None       *)
(*   path      request.url.path                                            *)

Req(u, f, c, p) == [user |-> u, forwarded |-> f, client |-> c, path |-> p]

Requests ==
    { Req(None, None, "a", "/x"),
      Req(None, " a , b", "b", "/x"),
      Req("7", None, "a", "/x"),
      Req("7", None, "b", "/d/i") }

ExpenseRequests ==
    { Req(None, None, "a", "/api/expenses/"),
      Req("7", None, "a", "/api/expenses/") }

(* Responses the next handler of the pipeline may give. *)
HandlerResponses ==
    { [status_code |-> 200, content |-> [detail |-> "ok"], headers |-> {}],
      [status_code |-> 404, content |-> [detail |-> "Not Found"],
       headers |-> {}] }

-----------------------------------------------------------------------------
(* String helpers: str.startswith, str.split(",")[0], str.strip *)

(* Variant: the path must equal the prefix. *)
startswith_equal(s, prefix) == s = prefix

startswith(s, prefix) ==
    /\ Len(prefix) <= Len(s)
    /\ SubSeq(s, 1, Len(prefix)) = prefix

RECURSIVE FirstField(_, _)
FirstField(s, i) ==
    IF i > Len(s) THEN s
    ELSE IF SubSeq(s, i, i) = "," THEN SubSeq(s, 1, i - 1)
    ELSE FirstField(s, i + 1)

RECURSIVE strip(_)
strip(s) ==
    IF Len(s) = 0 THEN s
    ELSE IF SubSeq(s, 1, 1) = " " THEN strip(SubSeq(s, 2, Len(s)))
    ELSE IF SubSeq(s, Len(s), Len(s)) = " " THEN strip(SubSeq(s, 1, Len(s) - 1))
    ELSE s

(* int(x) of a float x = n / d, d > 0: truncation towards zero *)
IntTrunc(n, d) == IF n >= 0 THEN n \div d ELSE -((-n) \div d)

-----------------------------------------------------------------------------
(* RateLimitExceeded.  Headers are a set of <<name, value>> pairs; a      *)
(* headers argument of None adds no header.                                *)

NoHeaders == {}

(* Variant: the headers are not passed on. *)
RateLimitExceeded_no_headers(detail, retry_after) ==
    [status_code |-> HTTP_429_TOO_MANY_REQUESTS,
     detail |-> detail,
     headers |-> NoHeaders]

RateLimitExceeded(detail, retry_after) ==
    [status_code |-> HTTP_429_TOO_MANY_REQUESTS,
     detail |-> detail,
     headers |-> IF retry_after # 0
                 THEN {<<"Retry-After", ToString(retry_after)>>}
                 ELSE NoHeaders]

-----------------------------------------------------------------------------
(* RateLimitConfig.  An Optional[int] argument is <<>> for None and <<n>>  *)
(* for the integer n.                                                      *)

get_user(request) == request.user

(* Variant: the direct connection address is preferred to the header. *)
get_cache_key_client_first(request) ==
    LET user_id == get_user(request) IN
    IF user_id # None THEN "user:" \o user_id
    ELSE
      LET forwarded == request.forwarded
          ip == IF request.client # None THEN request.client
                ELSE IF forwarded # None /\ forwarded # ""
                     THEN strip(FirstField(forwarded, 1))
                     ELSE "unknown"
          endpoint == request.path
      IN "ip:" \o ip \o ":path:" \o endpoint

(* Variant: an empty header is used like any other header value. *)
get_cache_key_header_present(request) ==
    LET user_id == get_user(request) IN
    IF user_id # None THEN "user:" \o user_id
    ELSE
      LET forwarded == request.forwarded
          ip == IF forwarded # None
                THEN strip(FirstField(forwarded, 1))
                ELSE IF request.client # None THEN request.client
                     ELSE "unknown"
          endpoint == request.path
      IN "ip:" \o ip \o ":path:" \o endpoint

get_cache_key(request) ==
    LET user_id == get_user(request) IN
    IF user_id # None THEN "user:" \o user_id
    ELSE
      LET forwarded == request.forwarded
          ip == IF forwarded # None /\ forwarded # ""
                THEN strip(FirstField(forwarded, 1))
                ELSE IF request.client # None THEN request.client
                     ELSE "unknown"
          endpoint == request.path
      IN "ip:" \o ip \o ":path:" \o endpoint

(* A caller-supplied key function: one counter per client host. *)
CustomKey(request) ==
    "host:" \o (IF request.client # None THEN request.client ELSE "-")

RateLimitConfig(requests_limit, window_size, auth_requests_limit, key_func) ==
    [requests_limit |-> requests_limit,
     window_size |-> window_size,
     auth_requests_limit |->
        IF auth_requests_limit # <<>> /\ auth_requests_limit[1] # 0
        THEN auth_requests_limit[1]
        ELSE requests_limit * 2,
     key_func |-> IF key_func # None THEN key_func ELSE "get_cache_key"]

(* The key config.key_func yields for a request *)
key_func(cfg, request) ==
    IF cfg.key_func = "get_cache_key" THEN get_cache_key(request)
    ELSE CustomKey(request)

-----------------------------------------------------------------------------
(* RateLimiter.  The store _cache is a function from the keys present to   *)
(* [timestamp, count]; timestamps are in ticks.                            *)

WindowTicks(cfg) == cfg.window_size * TicksPerSecond

(* Variant: an expired entry is kept, with its count set to zero. *)
_clean_old_requests_zeroed(cfg, store, now) ==
    LET expired == { key \in DOMAIN store :
                       (now - store[key].timestamp) >= WindowTicks(cfg) }
    IN [key \in DOMAIN store |->
          IF key \in expired
          THEN [timestamp |-> store[key].timestamp, count |-> 0]
          ELSE store[key]]

(* Variant: an entry is removed only when it is older than the window. *)
_clean_old_requests_gt(cfg, store, now) ==
    LET expired == { key \in DOMAIN store :
                       (now - store[key].timestamp) > WindowTicks(cfg) }
    IN [key \in (DOMAIN store) \ expired |-> store[key]]

(* Variant: the age in ticks is compared with the window in seconds. *)
_clean_old_requests_units(cfg, store, now) ==
    LET expired == { key \in DOMAIN store :
                       (now - store[key].timestamp) >= cfg.window_size }
    IN [key \in (DOMAIN store) \ expired |-> store[key]]

_clean_old_requests(cfg, store, now) ==
    LET expired == { key \in DOMAIN store :
                       (now - store[key].timestamp) >= WindowTicks(cfg) }
    IN [key \in (DOMAIN store) \ expired |-> store[key]]

Put(store, key, timestamp, count) ==
    [k \in (DOMAIN store) \cup {key} |->
        IF k = key THEN [timestamp |-> timestamp, count |-> count]
        ELSE store[k]]

(* Variant: every caller is given the authenticated limit. *)
EffectiveLimit_authenticated(cfg, request) == cfg.auth_requests_limit

(* Variant: the authenticated limit is never applied. *)
EffectiveLimit_baseline(cfg, request) == cfg.requests_limit

EffectiveLimit(cfg, request) ==
    LET is_authenticated == get_user(request) # None
    IN IF is_authenticated THEN cfg.auth_requests_limit
       ELSE cfg.requests_limit

(* Variant: count > limit, one request too many. *)
LimitReached_gt(count, limit) == count > limit

(* count >= limit *)
LimitReached(count, limit) == count >= limit

(* Variant: window_size - int(time_passed). *)
RetryAfter_int_first(cfg, time_passed) ==
    cfg.window_size - IntTrunc(time_passed, TicksPerSecond)

(* int(self.config.window_size - time_passed), time_passed in ticks *)
RetryAfter(cfg, time_passed) ==
    IntTrunc(WindowTicks(cfg) - time_passed, TicksPerSecond)

(* The results of is_allowed: return True, or raise RateLimitExceeded      *)
(* (raised is the set of exceptions raised: empty or one exception).       *)
Admitted(store, key) ==
    [cache |-> store, allowed |-> TRUE, key |-> key,
     retry_after |-> <<>>, raised |-> {}]

Denied(store, key, retry_after) ==
    [cache |-> store, allowed |-> FALSE, key |-> key,
     retry_after |-> <<retry_after>>,
     raised |-> {RateLimitExceeded(
                    "Rate limit exceeded. Try again in "
                      \o ToString(retry_after) \o " seconds",
                    retry_after)}]

(* Variant: a denied call starts the window of its key anew. *)
is_allowed_denial_restarts(cfg, store, request, now, now2) ==
    LET key == get_cache_key(request)
        limit == EffectiveLimit(cfg, request)
        swept == _clean_old_requests(cfg, store, now2)
    IN IF key \in DOMAIN swept
       THEN LET timestamp == swept[key].timestamp
                count == swept[key].count
                time_passed == now - timestamp
            IN IF time_passed >= WindowTicks(cfg)
               THEN Admitted(Put(swept, key, now, 1), key)
               ELSE IF LimitReached(count, limit)
                    THEN Denied(Put(swept, key, now, count), key,
                                RetryAfter(cfg, time_passed))
                    ELSE Admitted(Put(swept, key, timestamp, count + 1), key)
       ELSE Admitted(Put(swept, key, now, 1), key)

(* Variant: the count is compared with the limit before the age of the    *)
(* window is looked at.                                                    *)
is_allowed_count_first(cfg, store, request, now, now2) ==
    LET key == get_cache_key(request)
        limit == EffectiveLimit(cfg, request)
    IN IF key \in DOMAIN store /\ LimitReached(store[key].count, limit)
       THEN Denied(store, key,
                   RetryAfter(cfg, now - store[key].timestamp))
       ELSE LET swept == _clean_old_requests(cfg, store, now2)
            IN IF key \in DOMAIN swept
               THEN Admitted(Put(swept, key, swept[key].timestamp,
                                 swept[key].count + 1), key)
               ELSE Admitted(Put(swept, key, now, 1), key)

(* Variant: the limit is also applied to the first call of a window. *)
is_allowed_limit_first_call(cfg, store, request, now, now2) ==
    LET key == get_cache_key(request)
        limit == EffectiveLimit(cfg, request)
        swept == _clean_old_requests(cfg, store, now2)
    IN IF key \in DOMAIN swept /\ now - swept[key].timestamp < WindowTicks(cfg)
       THEN LET timestamp == swept[key].timestamp
                count == swept[key].count
                time_passed == now - timestamp
            IN IF LimitReached(count, limit)
               THEN Denied(swept, key, RetryAfter(cfg, time_passed))
               ELSE Admitted(Put(swept, key, timestamp, count + 1), key)
       ELSE IF LimitReached(0, limit)
            THEN Denied(swept, key, cfg.window_size)
            ELSE Admitted(Put(swept, key, now, 1), key)

(* Variant: the count is incremented before it is compared with the limit. *)
is_allowed_increment_first(cfg, store, request, now, now2) ==
    LET key == get_cache_key(request)
        limit == EffectiveLimit(cfg, request)
        swept == _clean_old_requests(cfg, store, now2)
    IN IF key \in DOMAIN swept
       THEN LET timestamp == swept[key].timestamp
                count == swept[key].count
                time_passed == now - timestamp
            IN IF time_passed >= WindowTicks(cfg)
               THEN Admitted(Put(swept, key, now, 1), key)
               ELSE IF LimitReached(count, limit)
                    THEN Denied(Put(swept, key, timestamp, count + 1), key,
                                RetryAfter(cfg, time_passed))
                    ELSE Admitted(Put(swept, key, timestamp, count + 1), key)
       ELSE Admitted(Put(swept, key, now, 1), key)

(* is_allowed: now is the clock reading of is_allowed itself, now2 the     *)
(* later reading taken inside _clean_old_requests.                         *)
is_allowed(cfg, store, request, now, now2) ==
    LET key == get_cache_key(request)
        limit == EffectiveLimit(cfg, request)
        swept == _clean_old_requests(cfg, store, now2)
    IN IF key \in DOMAIN swept
       THEN LET timestamp == swept[key].timestamp
                count == swept[key].count
                time_passed == now - timestamp
            IN IF time_passed >= WindowTicks(cfg)
               THEN Admitted(Put(swept, key, now, 1), key)
               ELSE IF LimitReached(count, limit)
                    THEN Denied(swept, key, RetryAfter(cfg, time_passed))
                    ELSE Admitted(Put(swept, key, timestamp, count + 1), key)
       ELSE Admitted(Put(swept, key, now, 1), key)

-----------------------------------------------------------------------------
(* RateLimitMiddleware *)

Excluded(paths, request) ==
    \E path \in paths : startswith(request.path, path)

JSONResponse(status_code, content, headers) ==
    [status_code |-> status_code, content |-> content, headers |-> headers]

(* Variant: call_next runs before the admission check. *)
dispatch_next_first(cfg, paths, store, request, now, now2, next_response) ==
    IF Excluded(paths, request)
    THEN [cache |-> store, checked |-> {}, next_calls |-> 1,
          response |-> next_response]
    ELSE LET r == is_allowed(cfg, store, request, now, now2)
         IN IF r.allowed
            THEN [cache |-> r.cache, checked |-> {r}, next_calls |-> 1,
                  response |-> next_response]
            ELSE LET e == CHOOSE e \in r.raised : TRUE
                 IN [cache |-> r.cache, checked |-> {r}, next_calls |-> 1,
                     response |-> JSONResponse(e.status_code,
                                               [detail |-> e.detail],
                                               e.headers)]

(* dispatch: the outcome of one request through the middleware.  call_next *)
(* answers next_response when it is called; next_calls counts its calls.   *)
dispatch(cfg, paths, store, request, now, now2, next_response) ==
    IF Excluded(paths, request)
    THEN [cache |-> store, checked |-> {}, next_calls |-> 1,
          response |-> next_response]
    ELSE LET r == is_allowed(cfg, store, request, now, now2)
         IN IF r.allowed
            THEN [cache |-> r.cache, checked |-> {r}, next_calls |-> 1,
                  response |-> next_response]
            ELSE LET e == CHOOSE e \in r.raised : TRUE
                 IN [cache |-> r.cache, checked |-> {r}, next_calls |-> 0,
                     response |-> JSONResponse(e.status_code,
                                               [detail |-> e.detail],
                                               e.headers)]

-----------------------------------------------------------------------------
(* Observers: they record what happened, the program does not read them.   *)
(*   seen      per key, the start t0 of the window opened by the first     *)
(*             call for the key and the number n of calls made for that    *)
(*             key since, counted from the clock alone                     *)
(*   isolated  per key, the entry the key has in a limiter that receives   *)
(*             only the checks made for that key                           *)
(*   given     the arguments the configuration was constructed with (none  *)
(*             recorded, or one record)                                    *)
(*   recent    per key, the clock readings `now` of the admitted calls of  *)
(*             the last window_size seconds, oldest first                  *)
(*   last      the most recent call and its outcome: the request, the two  *)
(*             clock readings, the entry its key had before (prior), the   *)
(*             keys the call removed, the result of is_allowed (checked),  *)
(*             the calls of the next handler and the response returned     *)

(* Calls are counted up to one more than the limit of the caller, and at   *)
(* least up to the second call.                                            *)
CallCap(cfg, request) ==
    LET limit == IF request.user # None THEN cfg.auth_requests_limit
                 ELSE cfg.requests_limit
    IN 1 + (IF limit >= 1 THEN limit ELSE 1)

(* A window that is over is forgotten. *)
SeenAt(cfg, s, t) ==
    [k \in {k \in DOMAIN s : t - s[k].t0 < WindowTicks(cfg)} |-> s[k]]

SeenNext(cfg, s, request, now, now2) ==
    LET cur == SeenAt(cfg, s, now2)
        key == get_cache_key(request)
    IN IF key \in DOMAIN cur
       THEN [cur EXCEPT ![key].n =
                IF @ < CallCap(cfg, request) THEN @ + 1 ELSE @]
       ELSE [k \in (DOMAIN cur) \cup {key} |->
               IF k = key THEN [t0 |-> now, n |-> 1] ELSE cur[k]]

Only(store, key) == [k \in (DOMAIN store) \cap {key} |-> store[k]]

IsolatedNext(cfg, iso, request, now, now2) ==
    LET key == get_cache_key(request)
        r == is_allowed(cfg, Only(iso, key), request, now, now2)
    IN [cache |-> [k \in ((DOMAIN iso) \ {key}) \cup DOMAIN r.cache |->
                     IF k = key THEN r.cache[k] ELSE iso[k]],
        allowed |-> r.allowed]

(* is_allowed called as a dependency produces no response of its own. *)
NoResponse == [status_code |-> 0, content |-> [detail |-> ""], headers |-> {}]

NoCall ==
    [op |-> "none", request |-> {}, now |-> 0, now2 |-> 0,
     prior |-> {}, removed |-> {},
     checked |-> {}, next_calls |-> 0, response |-> {}, next_response |-> {},
     nth |-> 0, iso_allowed |-> {}]

Observe(op, request, now, now2, d, next_response, nth, iso_allowed) ==
    [op |-> op, request |-> {request}, now |-> now, now2 |-> now2,
     prior |-> IF d.checked # {} /\ get_cache_key(request) \in DOMAIN cache
               THEN {cache[get_cache_key(request)]} ELSE {},
     removed |-> (DOMAIN cache) \ (DOMAIN d.cache),
     checked |-> d.checked, next_calls |-> d.next_calls,
     response |-> {d.response}, next_response |-> next_response,
     nth |-> nth, iso_allowed |-> iso_allowed]

-----------------------------------------------------------------------------
(* The parts a specification does not run stay as they are constructed:    *)
(* no arguments recorded, no coroutine started, no request in flight,      *)
(* empty tables.                                                           *)

NoLimits == given = {} /\ recent = <<>>
NoTasks == tasks = <<>> /\ admits = <<>>
NoApp == stores = <<>> /\ inflight = {}
NoData ==
    /\ users = {}
    /\ categories = {}
    /\ expenses = {}
    /\ next_id = [category |-> 1, expense |-> 1]
    /\ reply = {}

-----------------------------------------------------------------------------
(* The middleware limiter: one RateLimitMiddleware instance.               *)

Configs ==
    { RateLimitConfig(l, WindowSize, <<>>, kf) :
        l \in 1..MaxLimit, kf \in {None, "custom"} }

Init ==
    /\ config \in Configs
    /\ exclude_paths = {"/d"}
    /\ clock = 0
    /\ cache = <<>>
    /\ last = NoCall
    /\ seen = <<>>
    /\ isolated = <<>>
    /\ NoLimits /\ NoTasks /\ NoApp /\ NoData

(* Time passes between requests. *)
Tick ==
    /\ clock < MaxTime
    /\ clock' = clock + 1
    /\ last' = NoCall
    /\ seen' = SeenAt(config, seen, clock')
    /\ UNCHANGED <<limitVars, config, exclude_paths, cache, isolated>>
    /\ UNCHANGED <<taskVars, appVars, dataVars>>

(* RateLimitMiddleware.dispatch handles one request. *)
Dispatch(request, skew, next_response) ==
    LET now == clock
        now2 == clock + skew
        key == get_cache_key(request)
        d == dispatch(config, exclude_paths, cache, request, now, now2,
                      next_response)
        s == SeenNext(config, seen, request, now, now2)
        iso == IsolatedNext(config, isolated, request, now, now2)
    IN /\ now2 <= MaxTime
       /\ cache' = d.cache
       /\ IF d.checked = {}
          THEN /\ last' = Observe("dispatch", request, now, now2, d,
                                  {next_response}, 0, {})
               /\ UNCHANGED <<clock, seen, isolated>>
          ELSE /\ last' = Observe("dispatch", request, now, now2, d,
                                  {next_response}, s[key].n, {iso.allowed})
               /\ clock' = now2
               /\ seen' = s
               /\ isolated' = iso.cache
       /\ UNCHANGED <<limitVars, config, exclude_paths>>
       /\ UNCHANGED <<taskVars, appVars, dataVars>>

Next ==
    \/ Tick
    \/ \E request \in Requests, skew \in 0..MaxSkew,
          next_response \in HandlerResponses :
            Dispatch(request, skew, next_response)

Spec == Init /\ [][Next]_vars

-----------------------------------------------------------------------------
(* The limiter of the expense routes, expense_rate_limit, used as a route  *)
(* dependency: is_allowed is called directly and raises on denial.  Time   *)
(* advances by half windows.                                               *)

HalfWindow(cfg) == WindowTicks(cfg) \div 2

expense_rate_limit ==
    RateLimitConfig(ExpenseRequestsLimit, ExpenseWindowSize,
                    <<ExpenseAuthRequestsLimit>>, None)

InitExpense ==
    /\ config = expense_rate_limit
    /\ exclude_paths = {}
    /\ clock = 0
    /\ cache = <<>>
    /\ last = NoCall
    /\ seen = <<>>
    /\ isolated = <<>>
    /\ NoLimits /\ NoTasks /\ NoApp /\ NoData

TickExpense ==
    /\ clock + HalfWindow(config) <= MaxHalfWindows * HalfWindow(config)
    /\ clock' = clock + HalfWindow(config)
    /\ last' = NoCall
    /\ seen' = SeenAt(config, seen, clock')
    /\ UNCHANGED <<limitVars, config, exclude_paths, cache, isolated>>
    /\ UNCHANGED <<taskVars, appVars, dataVars>>

(* One request reaches the dependency expense_rate_limit.is_allowed. *)
Check(request, skew) ==
    LET now == clock
        now2 == clock + skew
        key == get_cache_key(request)
        r == is_allowed(config, cache, request, now, now2)
        s == SeenNext(config, seen, request, now, now2)
    IN /\ now2 <= MaxHalfWindows * HalfWindow(config)
       /\ cache' = r.cache
       /\ clock' = now2
       /\ seen' = s
       /\ last' = Observe("check", request, now, now2,
                          [cache |-> r.cache, checked |-> {r},
                           next_calls |-> 0, response |-> NoResponse],
                          {}, s[key].n, {})
       /\ UNCHANGED <<limitVars, config, exclude_paths, isolated>>
       /\ UNCHANGED <<taskVars, appVars, dataVars>>

NextExpense ==
    \/ TickExpense
    \/ \E request \in ExpenseRequests, skew \in {0, HalfWindow(config)} :
          Check(request, skew)

SpecExpense == InitExpense /\ [][NextExpense]_vars

-----------------------------------------------------------------------------
(* is_allowed as a coroutine.  A coroutine can be suspended only where it  *)
(* awaits: at `await self.config.get_cache_key(request)` and at            *)
(* `await self.config.get_user(request)`.  From there to its return or     *)
(* raise it reads the clock, sweeps, and reads and writes self._cache      *)
(* without awaiting, so that part is one step.                             *)
(*   tasks   per coroutine: where it is suspended (pc), its request, the   *)
(*           key it has computed, the store as it was when the coroutine   *)
(*           was called (view)                                             *)
(*   admits  per key of seen, the calls admitted since the window of seen  *)
(*           began (an observer, like seen)                                *)

NumCoroutines == 2

Coroutines == 1..NumCoroutines

(* Two callers with one key. *)
CoRequests ==
    { Req(None, None, "a", "/x"),
      Req(None, "a", "b", "/x") }

NotStarted ==
    [pc |-> "idle", request |-> {}, key |-> "", view |-> <<>>]

(* Variant: the check works on the store as it was before the awaits. *)
StoreSeenBy_at_call(p) == tasks[p].view

(* The store the check of coroutine p reads: self._cache as it is when the *)
(* coroutine runs again after its last await.                              *)
StoreSeenBy(p) == cache

AdmitsAt(a, s) == [k \in (DOMAIN a) \cap (DOMAIN s) |-> a[k]]

AdmitsNext(a, s, key, allowed) ==
    [k \in DOMAIN s |->
        IF k = key
        THEN (IF s[k].n = 1 \/ k \notin DOMAIN a THEN 0 ELSE a[k])
             + (IF allowed THEN 1 ELSE 0)
        ELSE a[k]]

InitConcurrent ==
    /\ config \in { RateLimitConfig(l, WindowSize, <<>>, None) :
                      l \in 1..MaxLimit }
    /\ exclude_paths = {}
    /\ clock = 0
    /\ cache = <<>>
    /\ last = NoCall
    /\ seen = <<>>
    /\ isolated = <<>>
    /\ tasks = [p \in Coroutines |-> NotStarted]
    /\ admits = <<>>
    /\ NoLimits /\ NoApp /\ NoData

TickConcurrent ==
    /\ clock < MaxTime
    /\ clock' = clock + 1
    /\ last' = NoCall
    /\ seen' = SeenAt(config, seen, clock')
    /\ admits' = AdmitsAt(admits, seen')
    /\ UNCHANGED <<limitVars, config, exclude_paths, cache, isolated, tasks>>
    /\ UNCHANGED <<appVars, dataVars>>

(* is_allowed(request) is called and runs up to its first await. *)
Call(p, request) ==
    /\ tasks[p].pc = "idle"
    /\ tasks' = [tasks EXCEPT ![p] =
                    [pc |-> "get_cache_key", request |-> {request},
                     key |-> "", view |-> cache]]
    /\ UNCHANGED <<limitVars, config, exclude_paths, clock, cache, last, seen,
                   isolated, admits>>
    /\ UNCHANGED <<appVars, dataVars>>

(* The coroutine runs from its first await to its second: key is set. *)
ResumeKey(p) ==
    /\ tasks[p].pc = "get_cache_key"
    /\ tasks' = [tasks EXCEPT
                    ![p].pc = "get_user",
                    ![p].key = get_cache_key(
                                  CHOOSE r \in tasks[p].request : TRUE)]
    /\ UNCHANGED <<limitVars, config, exclude_paths, clock, cache, last, seen,
                   isolated, admits>>
    /\ UNCHANGED <<appVars, dataVars>>

(* The coroutine runs from its second await to its end. *)
ResumeCheck(p, skew) ==
    LET request == CHOOSE r \in tasks[p].request : TRUE
        now == clock
        now2 == clock + skew
        key == tasks[p].key
        r == is_allowed(config, StoreSeenBy(p), request, now, now2)
        s == SeenNext(config, seen, request, now, now2)
    IN /\ tasks[p].pc = "get_user"
       /\ now2 <= MaxTime
       /\ cache' = r.cache
       /\ clock' = now2
       /\ seen' = s
       /\ admits' = AdmitsNext(admits, s, key, r.allowed)
       /\ tasks' = [tasks EXCEPT ![p] = NotStarted]
       /\ last' = Observe("is_allowed", request, now, now2,
                          [cache |-> r.cache, checked |-> {r},
                           next_calls |-> 0, response |-> NoResponse],
                          {}, s[key].n, {})
       /\ UNCHANGED <<limitVars, config, exclude_paths, isolated>>
       /\ UNCHANGED <<appVars, dataVars>>

NextConcurrent ==
    \/ TickConcurrent
    \/ \E p \in Coroutines, request \in CoRequests : Call(p, request)
    \/ \E p \in Coroutines : ResumeKey(p)
    \/ \E p \in Coroutines, skew \in 0..MaxSkew : ResumeCheck(p, skew)

SpecConcurrent == InitConcurrent /\ [][NextConcurrent]_vars

-----------------------------------------------------------------------------
(* The limiter instances of the application: get_app adds the strict       *)
(* middleware, then the general middleware, which therefore runs first;    *)
(* the routes of expenses/views.py depend on expense_rate_limit.           *)
(*   stores    per instance, its RateLimiter._cache                        *)
(*   inflight  the request on its way through the pipeline (none, or one): *)
(*             the stage that handles it next, the instances that checked  *)
(*             it, the instance that denied it, and its response status    *)
(* A request is handed from stage to stage through awaits (call_next), so  *)
(* each stage is a step of its own and time may pass between stages.       *)

GeneralRequestsLimit == 100
GeneralWindowSize == 60
StrictRequestsLimit == 5
StrictWindowSize == 60

Instances == {"general", "strict", "expense"}

AppConfig(i) ==
    CASE i = "general" ->
           RateLimitConfig(GeneralRequestsLimit, GeneralWindowSize, <<>>, None)
      [] i = "strict" ->
           RateLimitConfig(StrictRequestsLimit, StrictWindowSize, <<>>, None)
      [] i = "expense" -> expense_rate_limit

(* Variant: the strict limiter leaves the expense routes out as well. *)
AppExcludePaths_expenses(i) ==
    CASE i = "general" ->
           {"/api/docs", "/api/redoc", "/api/openapi.json"}
      [] i = "strict" ->
           {"/api/docs", "/api/redoc", "/api/openapi.json",
            "/api/categories", "/api/users", "/api/echo", "/api/dummy",
            "/api/monitoring", "/api/redis", "/api/expenses"}
      [] i = "expense" -> {}

AppExcludePaths(i) ==
    CASE i = "general" ->
           {"/api/docs", "/api/redoc", "/api/openapi.json"}
      [] i = "strict" ->
           {"/api/docs", "/api/redoc", "/api/openapi.json",
            "/api/categories", "/api/users", "/api/echo", "/api/dummy",
            "/api/monitoring", "/api/redis"}
      [] i = "expense" -> {}

(* No upstream layer sets request.state.user: every request is keyed by    *)
(* address and path.                                                       *)
AppRequests ==
    { Req(None, None, "a", "/api/expenses/"),
      Req(None, None, "a", "/api/docs") }

(* The routes of expenses/views.py, under the prefix at which             *)
(* tests/test_expenses.py calls them; web/api/router.py itself includes    *)
(* no router for them.                                                     *)
ExpenseRoute(request) == startswith(request.path, "/api/expenses")

(* Variant: one store, a class attribute, is used by every instance. *)
StoreOf_shared(i) == "general"

(* The store of instance i: self._cache, made by its own __init__. *)
StoreOf(i) == i

(* Variant: the middlewares run in the order in which they were added. *)
NextStage_as_added(i) ==
    CASE i = "app" -> "strict"
      [] i = "strict" -> "general"
      [] i = "general" -> "expense"
      [] i = "expense" -> "done"

(* The stage that handles a request after stage i.  add_middleware puts a  *)
(* middleware in front of those added before it, so the application hands  *)
(* a request to the middleware added last.                                 *)
NextStage(i) ==
    CASE i = "app" -> "general"
      [] i = "general" -> "strict"
      [] i = "strict" -> "expense"
      [] i = "expense" -> "done"

AppHorizon == MaxHalfWindows * HalfWindow(AppConfig("general"))

InitApp ==
    /\ config = AppConfig("general")
    /\ exclude_paths = {}
    /\ clock = 0
    /\ cache = <<>>
    /\ last = NoCall
    /\ seen = <<>>
    /\ isolated = <<>>
    /\ stores = [i \in Instances |-> <<>>]
    /\ inflight = {}
    /\ NoLimits /\ NoTasks /\ NoData

TickApp ==
    /\ clock + HalfWindow(config) <= AppHorizon
    /\ clock' = clock + HalfWindow(config)
    /\ UNCHANGED <<limitVars, config, exclude_paths, cache, last, seen,
                   isolated>>
    /\ UNCHANGED <<taskVars, appVars, dataVars>>

(* A request enters the pipeline. *)
Arrive(request) ==
    /\ \A f \in inflight : f.stage = "done"
    /\ inflight' = {[request |-> request, stage |-> NextStage("app"),
                     checked_by |-> {}, denied_by |-> {},
                     status_code |-> 0]}
    /\ UNCHANGED <<limitVars, config, exclude_paths, clock, cache, last, seen,
                   isolated, stores>>
    /\ UNCHANGED <<taskVars, dataVars>>

(* RateLimitMiddleware.dispatch of instance i handles the request. *)
MiddlewareStep(i, skew) ==
    \E f \in inflight :
      LET now == clock
          now2 == clock + skew
          d == dispatch(AppConfig(i), AppExcludePaths(i), stores[StoreOf(i)],
                        f.request, now, now2, NoResponse)
      IN /\ f.stage = i
         /\ i \in {"general", "strict"}
         /\ now2 <= AppHorizon
         /\ stores' = [stores EXCEPT ![StoreOf(i)] = d.cache]
         /\ clock' = IF d.checked = {} THEN clock ELSE now2
         /\ inflight' =
              IF d.next_calls = 0
              THEN {[f EXCEPT !.stage = "done",
                              !.checked_by = @ \cup {i},
                              !.denied_by = {i},
                              !.status_code = d.response.status_code]}
              ELSE {[f EXCEPT !.stage = NextStage(i),
                              !.checked_by =
                                 IF d.checked = {} THEN @ ELSE @ \cup {i}]}
         /\ UNCHANGED <<limitVars, config, exclude_paths, cache, last, seen,
                        isolated>>
         /\ UNCHANGED <<taskVars, dataVars>>

(* The request is routed: an expense route first resolves its dependency   *)
(* expense_rate_limit.is_allowed, whose exception becomes the response.    *)
RouteStep(skew) ==
    \E f \in inflight :
      LET now == clock
          now2 == clock + skew
          r == is_allowed(AppConfig("expense"), stores[StoreOf("expense")],
                          f.request, now, now2)
          e == CHOOSE e \in r.raised : TRUE
      IN /\ f.stage = "expense"
         /\ IF ExpenseRoute(f.request)
            THEN /\ now2 <= AppHorizon
                 /\ stores' = [stores EXCEPT ![StoreOf("expense")] = r.cache]
                 /\ clock' = now2
                 /\ inflight' =
                      {[f EXCEPT !.stage = "done",
                                 !.checked_by = @ \cup {"expense"},
                                 !.denied_by =
                                    IF r.allowed THEN {} ELSE {"expense"},
                                 !.status_code =
                                    IF r.allowed THEN 200
                                    ELSE e.status_code]}
            ELSE /\ skew = 0
                 /\ inflight' = {[f EXCEPT !.stage = "done",
                                           !.status_code = 200]}
                 /\ UNCHANGED <<stores, clock>>
         /\ UNCHANGED <<limitVars, config, exclude_paths, cache, last, seen,
                        isolated>>
         /\ UNCHANGED <<taskVars, dataVars>>

NextApp ==
    \/ TickApp
    \/ \E request \in AppRequests : Arrive(request)
    \/ \E i \in {"general", "strict"}, skew \in {0, HalfWindow(config)} :
          MiddlewareStep(i, skew)
    \/ \E skew \in {0, HalfWindow(config)} : RouteStep(skew)

SpecApp == InitApp /\ [][NextApp]_vars

-----------------------------------------------------------------------------
(* The default key over requests that differ in identity, header, address  *)
(* and path.  A header that is present and empty reads as "".  All checks  *)
(* fall into one window.                                                   *)

KeyRequests ==
    { Req("7", None, "b", "/x"),
      Req("7", " a , b", None, "/y"),
      Req(None, " a , b", "b", "/x"),
      Req(None, "", "b", "/x"),
      Req(None, None, "b", "/x"),
      Req(None, None, None, "/x"),
      Req(None, None, None, "/y"),
      Req(None, "", None, "/x") }

InitKey ==
    /\ config = RateLimitConfig(MaxLimit, WindowSize, <<>>, None)
    /\ exclude_paths = {}
    /\ clock = 0
    /\ cache = <<>>
    /\ last = NoCall
    /\ seen = <<>>
    /\ isolated = <<>>
    /\ NoLimits /\ NoTasks /\ NoApp /\ NoData

(* One is_allowed call of a limiter with the default key. *)
CheckKey(request) ==
    LET now == clock
        key == get_cache_key(request)
        r == is_allowed(config, cache, request, now, now)
        s == SeenNext(config, seen, request, now, now)
    IN /\ cache' = r.cache
       /\ seen' = s
       /\ last' = Observe("is_allowed", request, now, now,
                          [cache |-> r.cache, checked |-> {r},
                           next_calls |-> 0, response |-> NoResponse],
                          {}, s[key].n, {})
       /\ UNCHANGED <<limitVars, config, exclude_paths, clock, isolated>>
       /\ UNCHANGED <<taskVars, appVars, dataVars>>

NextKey == \E request \in KeyRequests : CheckKey(request)

SpecKey == InitKey /\ [][NextKey]_vars

-----------------------------------------------------------------------------
(* A limiter over the arguments RateLimitConfig can be constructed with:   *)
(* limits that are zero or negative, and an authenticated limit that is    *)
(* passed or not.  RateLimiter.is_allowed is called directly, by a caller  *)
(* without and a caller with identity.                                     *)

LimitArgs == (-1)..MaxLimit
AuthLimitArgs == {<<>>} \cup {<<n>> : n \in 0..MaxLimit}

LimitRequests ==
    { Req(None, None, "a", "/x"),
      Req("7", None, "a", "/x") }

(* The admissions of the last window before time t *)
RecentAt(cfg, rec, t) ==
    LET Within(time) == time > t - WindowTicks(cfg)
        kept == [k \in DOMAIN rec |-> SelectSeq(rec[k], Within)]
    IN [k \in {k \in DOMAIN kept : kept[k] # <<>>} |-> kept[k]]

RecentNext(cfg, rec, key, now, allowed) ==
    LET cur == RecentAt(cfg, rec, now)
    IN IF ~allowed THEN cur
       ELSE [k \in (DOMAIN cur) \cup {key} |->
               IF k = key
               THEN (IF key \in DOMAIN cur THEN cur[key] ELSE <<>>)
                    \o <<now>>
               ELSE cur[k]]

InitLimits ==
    /\ \E requests_limit \in LimitArgs,
          auth_requests_limit \in AuthLimitArgs :
          /\ given = {[requests_limit |-> requests_limit,
                       window_size |-> WindowSize,
                       auth_requests_limit |-> auth_requests_limit]}
          /\ config = RateLimitConfig(requests_limit, WindowSize,
                                      auth_requests_limit, None)
    /\ exclude_paths = {}
    /\ clock = 0
    /\ cache = <<>>
    /\ last = NoCall
    /\ seen = <<>>
    /\ isolated = <<>>
    /\ recent = <<>>
    /\ NoTasks /\ NoApp /\ NoData

TickLimits ==
    /\ clock < MaxTime
    /\ clock' = clock + 1
    /\ last' = NoCall
    /\ seen' = SeenAt(config, seen, clock')
    /\ recent' = RecentAt(config, recent, clock')
    /\ UNCHANGED <<given, config, exclude_paths, cache, isolated>>
    /\ UNCHANGED <<taskVars, appVars, dataVars>>

(* One is_allowed call of the limiter. *)
CheckLimit(request, skew) ==
    LET now == clock
        now2 == clock + skew
        key == get_cache_key(request)
        r == is_allowed(config, cache, request, now, now2)
        s == SeenNext(config, seen, request, now, now2)
    IN /\ now2 <= MaxTime
       /\ cache' = r.cache
       /\ clock' = now2
       /\ seen' = s
       /\ recent' = RecentNext(config, recent, key, now, r.allowed)
       /\ last' = Observe("is_allowed", request, now, now2,
                          [cache |-> r.cache, checked |-> {r},
                           next_calls |-> 0, response |-> NoResponse],
                          {}, s[key].n, {})
       /\ UNCHANGED <<given, config, exclude_paths, isolated>>
       /\ UNCHANGED <<taskVars, appVars, dataVars>>

NextLimits ==
    \/ TickLimits
    \/ \E request \in LimitRequests, skew \in 0..MaxSkew :
          CheckLimit(request, skew)

SpecLimits == InitLimits /\ [][NextLimits]_vars

-----------------------------------------------------------------------------
(* The data handlers: registration (db/models/users.py), the category      *)
(* routes (web/api/categories/views.py) and the expense routes             *)
(* (web/api/expenses/views.py), each called for an authenticated user      *)
(* (the dependency current_user) on one database.                          *)
(*   users       the registered users; a user's id stands for its row      *)
(*   categories  rows [id, user_id, name] of expense_categories            *)
(*   expenses    rows [id, user_id, category_id, amount] of expenses       *)
(*   next_id     per table, the next fresh primary key (uuid4 never        *)
(*               repeats)                                                  *)
(*   reply       the last call and its response (none, or one): handler,   *)
(*               user, the id in the path (0 when the path has none), the  *)
(*               body, and the status, detail and rows of the response     *)
(* The tables take up to MaxCategories and MaxExpenses rows; the ids of    *)
(* requests range over one more, an id that no row has.  Amounts are in    *)
(* cents.  The other columns (description, expense name and date,          *)
(* is_recurring) are written as given, or not at all, and are left out;    *)
(* requests are valid in these fields.  A field of a PATCH body is unset   *)
(* (not in body.set), null (in body.set with value <<>>) or a value <<v>>. *)

MaxCategories == 2
MaxExpenses == 1

AmountMin == 1
AmountMax == 99999999
MaxCategoryName == 50

Emails == {"a@x.org", "b@x.org"}
Passwords == {"testPass123", "Str0ng!pw", "Sh0rt!"}
CategoryIds == 1..(MaxCategories + 1)
ExpenseIds == 1..(MaxExpenses + 1)
CategoryNames == {"Food", " Food", "Rent", " ", ""}
PlainNames == {"Food"}
Amounts == {-1, 0, AmountMin, AmountMax + 1}

UpperCase ==
    {"A", "B", "C", "D", "E", "F", "G", "H", "I", "J", "K", "L", "M",
     "N", "O", "P", "Q", "R", "S", "T", "U", "V", "W", "X", "Y", "Z"}
LowerCase ==
    {"a", "b", "c", "d", "e", "f", "g", "h", "i", "j", "k", "l", "m",
     "n", "o", "p", "q", "r", "s", "t", "u", "v", "w", "x", "y", "z"}
Digits == {"0", "1", "2", "3", "4", "5", "6", "7", "8", "9"}
special_chars ==
    {"!", "@", "#", "$", "%", "^", "&", "*", "(", ")", ",", ".", "?",
     "\"", ":", "{", "}", "|", "<", ">"}

(* re.search of a character class *)
re_search(class, s) == \E i \in 1..Len(s) : SubSeq(s, i, i) \in class

(* A request body: the fields a handler reads of it. *)
Body(name, set, amount, category_id) ==
    [name |-> name, set |-> set, amount |-> amount,
     category_id |-> category_id]

NoBody == Body("", {}, <<>>, <<>>)

Reply(op, user, id, body, status_code, detail, rows) ==
    {[op |-> op, user |-> user, id |-> id, body |-> body,
      status_code |-> status_code, detail |-> detail, rows |-> rows]}

(* UserManager.validate_password: the detail of the HTTPException raised,  *)
(* "" when the password passes.                                            *)
validate_password(password) ==
    IF Len(password) < 8
    THEN "Password must be at least 8 characters long"
    ELSE IF ~re_search(UpperCase, password)
    THEN "Password must contain at least one uppercase letter"
    ELSE IF ~re_search(LowerCase, password)
    THEN "Password must contain at least one lowercase letter"
    ELSE IF ~re_search(Digits, password)
    THEN "Password must contain at least one number"
    ELSE IF ~re_search(special_chars, password)
    THEN "Password must contain at least one special character "
         \o "(!@#$%^&*(),.?\":{}|<>)"
    ELSE ""

(* ExpenseCategory.get_default_categories: the names it lists. *)
get_default_categories ==
    {"Groceries", "Transport", "Utilities", "Entertainment", "Healthcare"}

(* UserManager.on_after_register logs the event; the category rows it      *)
(* adds for the new user: none.                                            *)
on_after_register(user) == {}

InitData ==
    /\ config = RateLimitConfig(MaxLimit, WindowSize, <<>>, None)
    /\ exclude_paths = {}
    /\ clock = 0
    /\ cache = <<>>
    /\ last = NoCall
    /\ seen = <<>>
    /\ isolated = <<>>
    /\ NoLimits /\ NoTasks /\ NoApp /\ NoData

(* The handlers leave the limiter alone. *)
DataFrame ==
    /\ UNCHANGED <<limitVars, config, exclude_paths, clock, cache, last, seen,
                   isolated>>
    /\ UNCHANGED <<taskVars, appVars>>

(* POST /auth/register: BaseUserManager.create validates the password,     *)
(* refuses a known email, stores the user and calls on_after_register.     *)
Register(email, password) ==
    /\ IF validate_password(password) # ""
       THEN /\ reply' = Reply("register", email, 0, NoBody, 400,
                              validate_password(password), {})
            /\ UNCHANGED <<users, categories>>
       ELSE IF email \in users
       THEN /\ reply' = Reply("register", email, 0, NoBody, 400,
                              "REGISTER_USER_ALREADY_EXISTS", {})
            /\ UNCHANGED <<users, categories>>
       ELSE /\ users' = users \cup {email}
            /\ categories' = categories \cup on_after_register(email)
            /\ reply' = Reply("register", email, 0, NoBody, 201, "", {})
    /\ UNCHANGED <<expenses, next_id>>
    /\ DataFrame

(* Variant: the category is looked up by its id alone. *)
CategoryOfUser_any_user(user, category_id) ==
    {c \in categories : c.id = category_id}

(* The rows a category query finds *)
CategoryOfUser(user, category_id) ==
    {c \in categories : c.id = category_id /\ c.user_id = user}

CategoryNamed(user, name) ==
    {c \in categories : c.name = name /\ c.user_id = user}

(* scalar_one_or_none raises MultipleResultsFound on more than one row. *)
MultipleResultsFound(rows) == Cardinality(rows) > 1

(* POST /categories/ *)
create_category(user, name) ==
    LET body == Body(name, {"name"}, <<>>, <<>>)
        existing_category == CategoryNamed(user, name)
        db_category == [id |-> next_id.category, user_id |-> user,
                        name |-> strip(name)]
        refuse(status_code, detail) ==
            /\ reply' = Reply("create_category", user, 0, body,
                              status_code, detail, {})
            /\ UNCHANGED <<categories, next_id>>
    IN /\ user \in users
       /\ IF Len(name) < 1
          THEN refuse(422, "name")
          ELSE IF strip(name) = ""
          THEN refuse(400, "Category name cannot be empty")
          ELSE IF Len(strip(name)) > MaxCategoryName
          THEN refuse(400,
                      "Category name cannot be longer than 50 characters")
          ELSE IF MultipleResultsFound(existing_category)
          THEN refuse(500, "Internal Server Error")
          ELSE IF existing_category # {}
          THEN refuse(400, "A category with this name already exists")
          ELSE /\ next_id.category <= MaxCategories
               /\ categories' = categories \cup {db_category}
               /\ next_id' = [next_id EXCEPT !.category = @ + 1]
               /\ reply' = Reply("create_category", user, 0, body,
                                 201, "", {db_category})
       /\ UNCHANGED <<users, expenses>>
       /\ DataFrame

(* PATCH /categories/{category_id} *)
update_category(user, category_id, new_name) ==
    LET body == Body(new_name, {"name"}, <<>>, <<>>)
        category == CategoryOfUser(user, category_id)
        name == strip(new_name)
        existing == {c \in CategoryNamed(user, name) : c.id # category_id}
        updated == [id |-> category_id, user_id |-> user, name |-> name]
        refuse(status_code, detail) ==
            /\ reply' = Reply("update_category", user, category_id, body,
                              status_code, detail, {})
            /\ UNCHANGED categories
    IN /\ user \in users
       /\ IF Len(new_name) < 1
          THEN refuse(422, "name")
          ELSE IF category = {}
          THEN refuse(404, "Category not found")
          ELSE IF name = ""
          THEN refuse(400, "Category name cannot be empty")
          ELSE IF Len(name) > MaxCategoryName
          THEN refuse(400,
                      "Category name cannot be longer than 50 characters")
          ELSE IF MultipleResultsFound(existing)
          THEN refuse(500, "Internal Server Error")
          ELSE IF existing # {}
          THEN refuse(400, "A category with this name already exists")
          ELSE /\ categories' = (categories \ category) \cup {updated}
               /\ reply' = Reply("update_category", user, category_id,
                                 body, 200, "", {updated})
       /\ UNCHANGED <<users, expenses, next_id>>
       /\ DataFrame

(* DELETE /categories/{category_id}; the expenses of the category go with  *)
(* it (ForeignKey ondelete CASCADE).                                       *)
delete_category(user, category_id) ==
    LET category == CategoryOfUser(user, category_id)
    IN /\ user \in users
       /\ IF category = {}
          THEN /\ reply' = Reply("delete_category", user, category_id,
                                 NoBody, 404, "Category not found", {})
               /\ UNCHANGED <<categories, expenses>>
          ELSE /\ categories' = categories \ category
               /\ expenses' = {e \in expenses : e.category_id # category_id}
               /\ reply' = Reply("delete_category", user, category_id,
                                 NoBody, 204, "", {})
       /\ UNCHANGED <<users, next_id>>
       /\ DataFrame

(* Variant: the expense is looked up by its id alone. *)
ExpenseOfUser_any_user(user, expense_id) ==
    {e \in expenses : e.id = expense_id}

(* select(Expense).where(Expense.id == expense_id,                         *)
(*                       Expense.user_id == current_user.id)               *)
ExpenseOfUser(user, expense_id) ==
    {e \in expenses : e.id = expense_id /\ e.user_id = user}

(* ExpenseCreate.amount: ge 0.01, le 999999.99 *)
ExpenseCreateValid(amount) == AmountMin <= amount /\ amount <= AmountMax

(* ExpenseUpdate.amount: Optional[float], ge 0 *)
ExpenseUpdateValid(body) ==
    ("amount" \in body.set /\ body.amount # <<>>) => body.amount[1] >= 0

(* response_model ExpenseRead: a row that fails ExpenseBase.amount cannot  *)
(* be serialised, and the response is an internal server error.            *)
ExpenseReadValid(rows) == \A e \in rows : ExpenseCreateValid(e.amount)

Response(op, user, id, body, status_code, rows) ==
    IF ExpenseReadValid(rows)
    THEN Reply(op, user, id, body, status_code, "", rows)
    ELSE Reply(op, user, id, body, 500, "Internal Server Error", {})

(* GET /expenses/ with the default skip and limit *)
list_expenses(user) ==
    /\ user \in users
    /\ reply' = Response("list_expenses", user, 0, NoBody, 200,
                         {e \in expenses : e.user_id = user})
    /\ UNCHANGED <<users, categories, expenses, next_id>>
    /\ DataFrame

(* POST /expenses/ *)
create_expense(user, amount, category_id) ==
    LET body == Body("", {"amount", "category_id"}, <<amount>>,
                     <<category_id>>)
        db_expense == [id |-> next_id.expense, user_id |-> user,
                       category_id |-> category_id, amount |-> amount]
        refuse(status_code, detail) ==
            /\ reply' = Reply("create_expense", user, 0, body,
                              status_code, detail, {})
            /\ UNCHANGED <<expenses, next_id>>
    IN /\ user \in users
       /\ IF ~ExpenseCreateValid(amount)
          THEN refuse(422, "amount")
          ELSE IF CategoryOfUser(user, category_id) = {}
          THEN refuse(400, "Category not found or doesn't belong to user")
          ELSE /\ next_id.expense <= MaxExpenses
               /\ expenses' = expenses \cup {db_expense}
               /\ next_id' = [next_id EXCEPT !.expense = @ + 1]
               /\ reply' = Response("create_expense", user, 0, body, 201,
                                    {db_expense})
       /\ UNCHANGED <<users, categories>>
       /\ DataFrame

(* GET /expenses/{expense_id} *)
get_expense(user, expense_id) ==
    LET expense == ExpenseOfUser(user, expense_id)
    IN /\ user \in users
       /\ reply' = IF expense = {}
                   THEN Reply("get_expense", user, expense_id, NoBody, 404,
                              "Expense not found", {})
                   ELSE Response("get_expense", user, expense_id, NoBody,
                                 200, expense)
       /\ UNCHANGED <<users, categories, expenses, next_id>>
       /\ DataFrame

(* PATCH /expenses/{expense_id}: the fields set in the body are written to *)
(* the row; a null in a column that is not nullable fails the commit.      *)
update_expense(user, expense_id, body) ==
    LET found == ExpenseOfUser(user, expense_id)
        expense == CHOOSE e \in found : TRUE
        update_data == body.set
        updated ==
            [id |-> expense.id, user_id |-> expense.user_id,
             category_id |-> IF "category_id" \in update_data
                             THEN body.category_id[1]
                             ELSE expense.category_id,
             amount |-> IF "amount" \in update_data
                        THEN body.amount[1] ELSE expense.amount]
        refuse(status_code, detail) ==
            /\ reply' = Reply("update_expense", user, expense_id, body,
                              status_code, detail, {})
            /\ UNCHANGED expenses
    IN /\ user \in users
       /\ IF ~ExpenseUpdateValid(body)
          THEN refuse(422, "amount")
          ELSE IF found = {}
          THEN refuse(404, "Expense not found")
          ELSE IF /\ body.category_id # <<>>
                  /\ CategoryOfUser(user, body.category_id[1]) = {}
          THEN refuse(400, "Category not found or doesn't belong to user")
          ELSE IF \/ ("amount" \in update_data /\ body.amount = <<>>)
                  \/ ("category_id" \in update_data
                        /\ body.category_id = <<>>)
          THEN refuse(500, "Internal Server Error")
          ELSE /\ expenses' = (expenses \ found) \cup {updated}
               /\ reply' = Response("update_expense", user, expense_id,
                                    body, 200, {updated})
       /\ UNCHANGED <<users, categories, next_id>>
       /\ DataFrame

(* DELETE /expenses/{expense_id} *)
delete_expense(user, expense_id) ==
    LET expense == ExpenseOfUser(user, expense_id)
    IN /\ user \in users
       /\ IF expense = {}
          THEN /\ reply' = Reply("delete_expense", user, expense_id, NoBody,
                                 404, "Expense not found", {})
               /\ UNCHANGED expenses
          ELSE /\ expenses' = expenses \ expense
               /\ reply' = Reply("delete_expense", user, expense_id, NoBody,
                                 204, "", {})
       /\ UNCHANGED <<users, categories, next_id>>
       /\ DataFrame

(* The bodies of PATCH /expenses/{expense_id}: nothing set, the amount set *)
(* (to null or a value), the category set (to null or an id), or both set  *)
(* to values.                                                              *)
ExpenseUpdates ==
    {NoBody}
    \cup { Body("", {"amount"}, amount, <<>>) :
             amount \in {<<>>} \cup {<<a>> : a \in Amounts} }
    \cup { Body("", {"category_id"}, <<>>, category_id) :
             category_id \in {<<>>} \cup {<<c>> : c \in CategoryIds} }
    \cup { Body("", {"amount", "category_id"}, <<a>>, <<c>>) :
             a \in {0, AmountMin}, c \in CategoryIds }

(* The expense routes, on categories with plain names *)
NextData ==
    \/ \E email \in Emails, password \in Passwords :
          Register(email, password)
    \/ \E user \in Emails, name \in PlainNames :
          create_category(user, name)
    \/ \E user \in Emails, id \in CategoryIds : delete_category(user, id)
    \/ \E user \in Emails : list_expenses(user)
    \/ \E user \in Emails, amount \in Amounts, id \in CategoryIds :
          create_expense(user, amount, id)
    \/ \E user \in Emails, id \in ExpenseIds : get_expense(user, id)
    \/ \E user \in Emails, id \in ExpenseIds, body \in ExpenseUpdates :
          update_expense(user, id, body)
    \/ \E user \in Emails, id \in ExpenseIds : delete_expense(user, id)

SpecData == InitData /\ [][NextData]_vars

(* Registration and the category routes, with names that have blanks *)
NextCategories ==
    \/ \E email \in Emails, password \in Passwords :
          Register(email, password)
    \/ \E user \in Emails, name \in CategoryNames :
          create_category(user, name)
    \/ \E user \in Emails, id \in CategoryIds, name \in CategoryNames :
          update_category(user, id, name)
    \/ \E user \in Emails, id \in CategoryIds : delete_category(user, id)

SpecCategories == InitData /\ [][NextCategories]_vars

-----------------------------------------------------------------------------
(* create_category as a coroutine, each call with a database session of    *)
(* its own.  It is suspended where it awaits the database: at              *)
(* `await db.execute(query)`, where the database runs the existence query, *)
(* and at `await db.commit()`, where the database inserts the row.  The    *)
(* table expense_categories has a primary key and no other constraint on   *)
(* (user_id, name), so the insert of a fresh row always commits.           *)
(*   tasks  per coroutine: where it is suspended (pc), the calling user    *)
(*          and the name of the request body                               *)

CreateNames == {"Food", "Rent"}

NotCalled == [pc |-> "idle", user |-> "", name |-> ""]

InitCreate ==
    /\ config = RateLimitConfig(MaxLimit, WindowSize, <<>>, None)
    /\ exclude_paths = {}
    /\ clock = 0
    /\ cache = <<>>
    /\ last = NoCall
    /\ seen = <<>>
    /\ isolated = <<>>
    /\ tasks = [p \in Coroutines |-> NotCalled]
    /\ admits = <<>>
    /\ NoLimits /\ NoApp /\ NoData

CreateFrame ==
    /\ UNCHANGED <<limitVars, config, exclude_paths, clock, cache, last, seen,
                   isolated, admits>>
    /\ UNCHANGED appVars

(* The handler is called and runs up to `await db.execute(query)`, unless  *)
(* the name is refused before.                                             *)
CallCreate(p, user, name) ==
    LET body == Body(name, {"name"}, <<>>, <<>>)
        refuse(status_code, detail) ==
            /\ reply' = Reply("create_category", user, 0, body,
                              status_code, detail, {})
            /\ UNCHANGED tasks
    IN /\ tasks[p].pc = "idle"
       /\ user \in users
       /\ IF Len(name) < 1
          THEN refuse(422, "name")
          ELSE IF strip(name) = ""
          THEN refuse(400, "Category name cannot be empty")
          ELSE IF Len(strip(name)) > MaxCategoryName
          THEN refuse(400,
                      "Category name cannot be longer than 50 characters")
          ELSE /\ tasks' = [tasks EXCEPT ![p] =
                               [pc |-> "execute", user |-> user,
                                name |-> name]]
               /\ UNCHANGED reply
       /\ UNCHANGED <<users, categories, expenses, next_id>>
       /\ CreateFrame

(* The database runs the existence query; the handler raises on a row      *)
(* found, or goes on to `await db.commit()`.                               *)
ResumeExecute(p) ==
    LET user == tasks[p].user
        name == tasks[p].name
        body == Body(name, {"name"}, <<>>, <<>>)
        existing_category == CategoryNamed(user, name)
        refuse(status_code, detail) ==
            /\ reply' = Reply("create_category", user, 0, body,
                              status_code, detail, {})
            /\ tasks' = [tasks EXCEPT ![p] = NotCalled]
    IN /\ tasks[p].pc = "execute"
       /\ IF MultipleResultsFound(existing_category)
          THEN refuse(500, "Internal Server Error")
          ELSE IF existing_category # {}
          THEN refuse(400, "A category with this name already exists")
          ELSE /\ tasks' = [tasks EXCEPT ![p].pc = "commit"]
               /\ UNCHANGED reply
       /\ UNCHANGED <<users, categories, expenses, next_id>>
       /\ CreateFrame

(* The database inserts the row and commits; the handler returns it. *)
ResumeCommit(p) ==
    LET user == tasks[p].user
        name == tasks[p].name
        body == Body(name, {"name"}, <<>>, <<>>)
        db_category == [id |-> next_id.category, user_id |-> user,
                        name |-> strip(name)]
    IN /\ tasks[p].pc = "commit"
       /\ next_id.category <= MaxCategories
       /\ categories' = categories \cup {db_category}
       /\ next_id' = [next_id EXCEPT !.category = @ + 1]
       /\ reply' = Reply("create_category", user, 0, body, 201, "",
                         {db_category})
       /\ tasks' = [tasks EXCEPT ![p] = NotCalled]
       /\ UNCHANGED <<users, expenses>>
       /\ CreateFrame

NextCreate ==
    \/ \E email \in Emails, password \in Passwords :
          Register(email, password)
    \/ \E p \in Coroutines, user \in Emails, name \in CreateNames :
          CallCreate(p, user, name)
    \/ \E p \in Coroutines : ResumeExecute(p)
    \/ \E p \in Coroutines : ResumeCommit(p)

SpecCreate == InitCreate /\ [][NextCreate]_vars

-----------------------------------------------------------------------------
(* What the last call did *)

LastChecked == last.checked # {}
LastRequest == CHOOSE request \in last.request : TRUE
LastResult == CHOOSE r \in last.checked : TRUE
LastKey == get_cache_key(LastRequest)
LastPrior == CHOOSE e \in last.prior : TRUE
LastAnonymous == LastChecked /\ LastRequest.user = None

(* The window length in ticks, from the configuration *)
ConfiguredWindow == config.window_size * TicksPerSecond

-----------------------------------------------------------------------------
C2_WindowRollover ==
    (LastChecked /\ last.prior # {}
       /\ last.now >= LastPrior.timestamp + ConfiguredWindow) =>
        /\ LastResult.allowed
        /\ LastKey \in DOMAIN cache
        /\ cache[LastKey] = [timestamp |-> last.now, count |-> 1]

(* The old window was saturated, and the call comes exactly at its end. *)
C2_Witness ==
    /\ LastChecked /\ last.prior # {}
    /\ last.now = LastPrior.timestamp + ConfiguredWindow
    /\ LastPrior.count >= EffectiveLimit(config, LastRequest)
    /\ LastResult.allowed

(* The example: limit 2, window 60, calls at t = 0, 10, 20: the third is  *)
(* denied with retry_after = 40.                                           *)
C3_Example ==
    LET cfg == RateLimitConfig(2, 60, <<>>, None)
        request == Req(None, None, "1.2.3.4", "/x")
        At(seconds) == seconds * TicksPerSecond
        r1 == is_allowed(cfg, <<>>, request, At(0), At(0))
        r2 == is_allowed(cfg, r1.cache, request, At(10), At(10))
        r3 == is_allowed(cfg, r2.cache, request, At(20), At(20))
    IN /\ r1.allowed /\ r2.allowed
       /\ ~r3.allowed /\ r3.retry_after = <<40>>

(* C3: on a denial at time t in a window started at window_start, the      *)
(* reported retry_after is window_size - (t - window_start) truncated to   *)
(* an integer: the integer r >= 0 with r <= remaining < r + 1 (here in     *)
(* ticks of 1/TicksPerSecond second).                                      *)
C3_RetryAfter ==
    /\ C3_Example
    /\ (LastChecked /\ ~LastResult.allowed) =>
          /\ last.prior # {}
          /\ LET remaining ==
                    ConfiguredWindow - (last.now - LastPrior.timestamp)
                 r == LastResult.retry_after[1]
             IN /\ r >= 0
                /\ r * TicksPerSecond <= remaining
                /\ remaining < (r + 1) * TicksPerSecond

(* A denial with a fractional number of seconds left. *)
C3_Witness ==
    /\ LastChecked /\ ~LastResult.allowed
    /\ (ConfiguredWindow - (last.now - LastPrior.timestamp))
          % TicksPerSecond # 0

(* C4: with requests_limit = 50 and auth_requests_limit = 200, the         *)
(* expense limiter admits an authenticated caller exactly 200 times in one *)
(* window and denies the 201st call, and admits an unauthenticated caller  *)
(* exactly 50 times and denies the 51st.                                   *)
C4_AuthenticatedLimit ==
    LastChecked =>
        LET limit == IF LastRequest.user # None THEN 200 ELSE 50
        IN /\ last.nth <= limit => LastResult.allowed
           /\ last.nth > limit => ~LastResult.allowed

(* The 201st call of the authenticated caller is denied while the          *)
(* unauthenticated caller stands at 50 admitted calls and has made a 51st. *)
C4_Witness ==
    /\ LastChecked /\ LastRequest.user # None
    /\ last.nth = 201 /\ ~LastResult.allowed
    /\ \E k \in DOMAIN cache \cap DOMAIN seen :
          /\ k # LastKey
          /\ cache[k].count = 50
          /\ seen[k].n = 51

(* C5: with a custom key_func the counter of every check is selected by   *)
(* the key that key_func returns for the request.                          *)
C5_CustomKeyFunc ==
    (LastChecked /\ config.key_func # "get_cache_key") =>
        /\ LastResult.key = key_func(config, LastRequest)
        /\ LastResult.key \in DOMAIN cache

(* C6, as claimed: a denied check leaves the whole store as it was. *)
C6_DenialNeverMutates ==
    [][(LastChecked' /\ ~LastResult'.allowed) => cache' = cache]_vars

(* C6, amended: a denied check adds no key and changes no entry; the only  *)
(* change it can make is to remove entries of other keys whose window has  *)
(* expired (age >= window_size at the sweep).                              *)
C6_DenialOnlySweeps ==
    [][(LastChecked' /\ ~LastResult'.allowed) =>
          /\ DOMAIN cache' \subseteq DOMAIN cache
          /\ \A k \in DOMAIN cache :
                IF k \in DOMAIN cache' THEN cache'[k] = cache[k]
                ELSE /\ k # LastKey'
                     /\ last'.now2 - cache[k].timestamp >= ConfiguredWindow
      ]_vars

(* A denied check that removed the expired entry of another key. *)
C6_Witness ==
    /\ LastChecked /\ ~LastResult.allowed
    /\ last.removed # {}
    /\ cache[LastKey] = LastPrior

(* C7, as claimed: the outcomes of the checks for a key and the entry of   *)
(* the key are the same whether or not checks for other keys are made      *)
(* (isolated is the store where each key only meets its own checks).       *)
C7_SameEntries ==
    /\ LastChecked => last.iso_allowed = {LastResult.allowed}
    /\ cache = isolated

(* C7, amended: the outcomes are the same and so is every entry whose      *)
(* window has not expired; a check for another key can only remove the     *)
(* entry of a key once it has expired.                                     *)
C7_KeyIsolation ==
    /\ LastChecked => last.iso_allowed = {LastResult.allowed}
    /\ DOMAIN cache \subseteq DOMAIN isolated
    /\ \A k \in DOMAIN isolated :
          IF k \in DOMAIN cache THEN cache[k] = isolated[k]
          ELSE clock - isolated[k].timestamp >= ConfiguredWindow

(* Key A is exhausted and denied while key B keeps its own running window, *)
(* the same as without A's checks.                                         *)
C7_Witness ==
    /\ LastChecked /\ ~LastResult.allowed
    /\ \E k \in DOMAIN cache :
          /\ k # LastKey
          /\ clock - cache[k].timestamp < ConfiguredWindow
          /\ cache[k].timestamp # cache[LastKey].timestamp
          /\ cache[k] = isolated[k]

(* C8: a request whose path starts with an excluded prefix is forwarded to *)
(* the next handler and leaves the store of the limiter unchanged.         *)
LastExcluded ==
    /\ last.op = "dispatch"
    /\ \E path \in exclude_paths :
          /\ Len(path) <= Len(LastRequest.path)
          /\ SubSeq(LastRequest.path, 1, Len(path)) = path

C8_ExcludedBypass ==
    [][LastExcluded' =>
          /\ cache' = cache
          /\ last'.checked = {}
          /\ last'.next_calls = 1
          /\ last'.response = last'.next_response
      ]_vars

(* The excluded request comes from a caller whose counter is exhausted. *)
C8_Witness ==
    /\ LastExcluded
    /\ last.next_calls = 1
    /\ LastKey \in DOMAIN cache
    /\ cache[LastKey].count >= EffectiveLimit(config, LastRequest)
    /\ clock - cache[LastKey].timestamp < ConfiguredWindow

(* The response of the middleware to a denied request *)
LastDenied == last.op = "dispatch" /\ LastChecked /\ ~LastResult.allowed
LastResponse == CHOOSE response \in last.response : TRUE
LastException == CHOOSE e \in LastResult.raised : TRUE

(* C9, as claimed: the response to a denied request has status 429, the    *)
(* body {"detail": message} and a Retry-After header with retry_after.     *)
C9_DenialResponse ==
    LastDenied =>
        /\ LastResponse.status_code = 429
        /\ LastResponse.content = [detail |-> LastException.detail]
        /\ LastResponse.headers =
              {<<"Retry-After", ToString(LastResult.retry_after[1])>>}

(* C9, amended: status 429, body {"detail": message}, and a Retry-After    *)
(* header with retry_after whenever retry_after > 0; when retry_after is 0 *)
(* (less than one second left) the response has no Retry-After header.     *)
C9_DenialResponseAmended ==
    LastDenied =>
        /\ LastResponse.status_code = 429
        /\ LastResponse.content = [detail |-> LastException.detail]
        /\ LastResponse.headers =
              IF LastResult.retry_after[1] > 0
              THEN {<<"Retry-After", ToString(LastResult.retry_after[1])>>}
              ELSE {}

C9_Witness ==
    /\ LastDenied
    /\ LastResult.retry_after[1] = 0
    /\ LastResponse.headers = {}

(* C10: for a path that is not excluded the check runs first: the next     *)
(* handler is called once for an admitted request, whose response is       *)
(* returned unchanged, and is not called for a denied request.             *)
C10_CheckBeforeHandler ==
    (last.op = "dispatch" /\ ~LastExcluded) =>
        /\ LastChecked
        /\ LastResult.allowed =>
              (last.next_calls = 1 /\ last.response = last.next_response)
        /\ ~LastResult.allowed =>
              last.next_calls = 0

C10_Witness ==
    /\ LastDenied /\ ~LastExcluded
    /\ last.next_calls = 0
    /\ LastResponse.status_code = 429

-----------------------------------------------------------------------------
(* The limit that applies to the callers of a key *)
KeyLimit(cfg, key) ==
    IF startswith(key, "user:") THEN cfg.auth_requests_limit
    ELSE cfg.requests_limit

(* C11: when is_allowed calls run as coroutines that interleave only at    *)
(* their awaits, no increment is lost and no window admits more than the   *)
(* limit: for every key with a running window, the store holds the entry   *)
(* of that window, its count is the number of calls admitted in the        *)
(* window, and that number is at most the effective limit.                 *)
C11_AtomicCheck ==
    \A k \in DOMAIN seen :
        /\ k \in DOMAIN cache
        /\ k \in DOMAIN admits
        /\ cache[k].timestamp = seen[k].t0
        /\ cache[k].count = admits[k]
        /\ admits[k] <= KeyLimit(config, k)

(* A call is denied because the limit of its key is used up, while another *)
(* coroutine for the same key, called when the key had no entry yet, is    *)
(* still suspended at its last await.                                      *)
C11_Witness ==
    /\ last.op = "is_allowed" /\ LastChecked
    /\ ~LastResult.allowed
    /\ last.nth > KeyLimit(config, LastKey)
    /\ \E p \in DOMAIN tasks :
          /\ tasks[p].pc = "get_user"
          /\ tasks[p].key = LastKey
          /\ LastKey \notin DOMAIN tasks[p].view

-----------------------------------------------------------------------------
(* C12: after an admission check, the store holds no entry whose age at    *)
(* the time of the check is window_size or more, and a request whose key   *)
(* had an expired entry is handled as a first request: it is admitted and  *)
(* its key gets a new entry, starting at the request, with count 1.        *)
C12_SweepCorrectness ==
    LastChecked =>
        /\ \A k \in DOMAIN cache :
              /\ last.now2 - cache[k].timestamp < ConfiguredWindow
              /\ last.now - cache[k].timestamp < ConfiguredWindow
        /\ (last.prior # {}
              /\ last.now2 - LastPrior.timestamp >= ConfiguredWindow)
           => /\ LastResult.allowed
              /\ cache[LastKey] = [timestamp |-> last.now, count |-> 1]

(* A check for a key with an expired entry, which also removed the expired *)
(* entry of another key.                                                   *)
C12_Witness ==
    /\ LastChecked
    /\ last.prior # {}
    /\ last.now2 - LastPrior.timestamp >= ConfiguredWindow
    /\ last.removed # {}
    /\ cache[LastKey].count = 1

-----------------------------------------------------------------------------
(* The request in the pipeline and the key it has in every store *)
InFlight == CHOOSE f \in inflight : TRUE
FlightKey == get_cache_key(InFlight.request)

(* The outcome instance i gives the request from its own store alone *)
OwnOutcome(i, now, now2) ==
    IF i = "expense"
    THEN LET r == is_allowed(AppConfig(i), stores[i], InFlight.request,
                             now, now2)
         IN [cache |-> IF ExpenseRoute(InFlight.request)
                       THEN r.cache ELSE stores[i],
             denied |-> ExpenseRoute(InFlight.request) /\ ~r.allowed]
    ELSE LET d == dispatch(AppConfig(i), AppExcludePaths(i), stores[i],
                           InFlight.request, now, now2, NoResponse)
         IN [cache |-> d.cache, denied |-> d.next_calls = 0]

(* C13: limiter instances never share a store.  The step in which instance *)
(* i handles a request leaves the store of every other instance as it was, *)
(* and its outcome is the one that follows from the store of i alone; so   *)
(* an instance denies a caller only when the caller's count in that        *)
(* instance's own store has reached that instance's limit.                 *)
C13_IndependentStores ==
    [][ \A i \in Instances :
          (inflight # {} /\ InFlight.stage = i /\ inflight' # inflight)
          => LET own == OwnOutcome(i, clock, clock')
                 after == CHOOSE f \in inflight' : TRUE
             IN /\ \A j \in Instances \ {i} : stores'[j] = stores[j]
                /\ stores'[i] = own.cache
                /\ (after.denied_by = {i}) = own.denied
                /\ own.denied
                   => /\ FlightKey \in DOMAIN stores[i]
                      /\ LimitReached(stores[i][FlightKey].count,
                                      EffectiveLimit(AppConfig(i),
                                                     InFlight.request))
      ]_vars

(* The strict limiter denies a caller whose limit it has exhausted, after  *)
(* the general limiter, whose count for the same key is past the strict    *)
(* limit and below its own, has admitted the request; the route limiter    *)
(* holds an entry for the same key too.                                    *)
C13_Witness ==
    /\ inflight # {}
    /\ InFlight.stage = "done"
    /\ InFlight.denied_by = {"strict"}
    /\ InFlight.checked_by = {"general", "strict"}
    /\ \A i \in Instances : FlightKey \in DOMAIN stores[i]
    /\ stores["strict"][FlightKey].count = StrictRequestsLimit
    /\ stores["general"][FlightKey].count > StrictRequestsLimit
    /\ stores["general"][FlightKey].count < GeneralRequestsLimit

-----------------------------------------------------------------------------
(* The address the key is derived from, when the header counts as present  *)
(* under the condition present(forwarded)                                  *)
AddressWhen(request, present) ==
    IF present THEN strip(FirstField(request.forwarded, 1))
    ELSE IF request.client # None THEN request.client
    ELSE "unknown"

KeyWhen(request, present) ==
    IF request.user # None THEN "user:" \o request.user
    ELSE "ip:" \o AddressWhen(request, present)
              \o ":path:" \o request.path

(* C14 as stated: the key is "user:" + identity when an identity is        *)
(* attached, and otherwise "ip:" + addr + ":path:" + path with addr the    *)
(* first entry of X-Forwarded-For if the header is present, else the       *)
(* connection address, else "unknown".                                     *)
C14_HeaderPresent ==
    LastChecked =>
        LastResult.key = KeyWhen(LastRequest, LastRequest.forwarded # None)

(* C14: the key is "user:" + identity when an identity is attached, and    *)
(* otherwise "ip:" + addr + ":path:" + path with addr the first entry of   *)
(* X-Forwarded-For if the header is present and not empty, else the        *)
(* connection address, else "unknown".                                     *)
C14_DefaultKey ==
    LastChecked =>
        LastResult.key =
            KeyWhen(LastRequest, LastRequest.forwarded \notin {None, ""})

(* Every kind of key has been used: the store holds an identity key, a     *)
(* key from the header, one from the connection address and one for an     *)
(* unknown address, and the last request had an empty header.              *)
C14_Witness ==
    /\ LastChecked
    /\ LastRequest.forwarded = ""
    /\ {"user:7", "ip:a:path:/x", "ip:b:path:/x", "ip:unknown:path:/x"}
          \subseteq DOMAIN cache

-----------------------------------------------------------------------------
(* A request without identity and without resolvable address: no           *)
(* connection address and no header, or an empty one                       *)
NoAddress(request) ==
    /\ request.user = None
    /\ request.client = None
    /\ request.forwarded \in {None, ""}

(* The check of such a request fails only as any check does: on a count    *)
(* that has reached the limit.                                             *)
OnlyRateLimited ==
    \/ LastResult.allowed
    \/ /\ last.prior # {}
       /\ LimitReached(LastPrior.count, config.requests_limit)
       /\ \A e \in LastResult.raised :
             e.status_code = HTTP_429_TOO_MANY_REQUESTS

(* C15 as stated: a request without resolvable address is not failed for  *)
(* that, and all such requests are counted by one single counter.          *)
C15_SingleCounter ==
    (LastChecked /\ NoAddress(LastRequest)) =>
        /\ OnlyRateLimited
        /\ \A request \in KeyRequests :
              NoAddress(request) => get_cache_key(request) = LastResult.key

(* C15: a request without resolvable address is not failed for that, and   *)
(* such requests are counted by one counter per path: those to the path of *)
(* the request share its key, "ip:unknown:path:" + path, and those to      *)
(* another path have another key.                                          *)
C15_CounterPerPath ==
    (LastChecked /\ NoAddress(LastRequest)) =>
        /\ OnlyRateLimited
        /\ LastResult.key = "ip:unknown:path:" \o LastRequest.path
        /\ LastResult.key \in DOMAIN cache
        /\ \A request \in KeyRequests :
              NoAddress(request) =>
                 ((get_cache_key(request) = LastResult.key)
                    = (request.path = LastRequest.path))

(* A request without address is denied on one path, the limit having been  *)
(* used up by such requests, while the counter of such requests on another *)
(* path is still below the limit.                                          *)
C15_Witness ==
    /\ LastChecked /\ NoAddress(LastRequest)
    /\ ~LastResult.allowed
    /\ \E k \in DOMAIN cache :
          /\ k # LastResult.key
          /\ startswith(k, "ip:unknown:path:")
          /\ cache[k].count < config.requests_limit

-----------------------------------------------------------------------------
(* The last call of a data handler *)
Replied == CHOOSE r \in reply : TRUE

(* The handler was called: the body passed the validation of its schema *)
BodyAccepted(r) ==
    CASE r.op = "create_expense" -> ExpenseCreateValid(r.body.amount[1])
      [] r.op = "update_expense" -> ExpenseUpdateValid(r.body)
      [] OTHER -> TRUE

(* C16: the expense routes are scoped to the owner.  list_expenses called  *)
(* by a user returns only that user's expenses; get_expense,               *)
(* update_expense and delete_expense called by a user with the id of       *)
(* another user's expense answer 404 and leave the expenses as they were.  *)
C16_OwnerScoped ==
    [][ reply' # {} =>
          LET r == Replied'
          IN /\ r.op = "list_expenses"
                => \A e \in r.rows : e.user_id = r.user
             /\ (/\ r.op \in {"get_expense", "update_expense",
                              "delete_expense"}
                 /\ BodyAccepted(r)
                 /\ \E e \in expenses : e.id = r.id /\ e.user_id # r.user)
                => /\ r.status_code = 404
                   /\ r.rows = {}
                   /\ expenses' = expenses
      ]_vars

(* A user has asked to change the amount of another user's expense and got *)
(* 404; the other user, who also has the expense listed, still has it.     *)
C16_Witness ==
    /\ reply # {}
    /\ Replied.op = "update_expense"
    /\ "amount" \in Replied.body.set
    /\ Replied.status_code = 404
    /\ \E e \in expenses : e.id = Replied.id /\ e.user_id # Replied.user

(* C17: every stored expense has a category of its own user, and a         *)
(* create_expense or update_expense that names a category which does not   *)
(* exist or is another user's answers 400 and changes nothing.             *)
C17_CategoryOwned ==
    [][ /\ \A e \in expenses' :
              \E c \in categories' :
                 c.id = e.category_id /\ c.user_id = e.user_id
        /\ reply' # {} =>
             LET r == Replied'
             IN (/\ r.op \in {"create_expense", "update_expense"}
                 /\ BodyAccepted(r)
                 /\ r.op = "update_expense"
                    => \E e \in expenses : e.id = r.id /\ e.user_id = r.user
                 /\ r.body.category_id # <<>>
                 /\ ~\E c \in categories :
                        /\ c.id = r.body.category_id[1]
                        /\ c.user_id = r.user)
                => /\ r.status_code = 400
                   /\ r.detail = "Category not found or doesn't belong to user"
                   /\ expenses' = expenses
                   /\ categories' = categories
      ]_vars

(* A user who has an expense has asked to move it to the category of       *)
(* another user and got 400.                                               *)
C17_Witness ==
    /\ reply # {}
    /\ Replied.op = "update_expense"
    /\ Replied.status_code = 400
    /\ \E e \in expenses : e.id = Replied.id /\ e.user_id = Replied.user
    /\ \E c \in categories :
          /\ c.id = Replied.body.category_id[1]
          /\ c.user_id # Replied.user

-----------------------------------------------------------------------------
(* The categories of a user that have a name *)
OthersNamed(rows, user, name, id) ==
    {c \in rows : c.user_id = user /\ c.name = name /\ c.id # id}

(* C18: no user has two categories with the same name, and a               *)
(* create_category or update_category whose name the user already has on   *)
(* another category answers 400 'A category with this name already exists' *)
(* and changes nothing.                                                    *)
C18_UniqueNames ==
    [][ /\ \A c \in categories' :
              OthersNamed(categories', c.user_id, c.name, c.id) = {}
        /\ reply' # {} =>
             LET r == Replied'
             IN (/\ r.op \in {"create_category", "update_category"}
                 /\ r.op = "update_category"
                    => \E c \in categories :
                          c.id = r.id /\ c.user_id = r.user
                 /\ OthersNamed(categories, r.user, strip(r.body.name),
                                r.id) # {})
                => /\ r.status_code = 400
                   /\ r.detail = "A category with this name already exists"
                   /\ categories' = categories
      ]_vars

(* C19: every stored expense has an amount from 0.01 to 999999.99, and a   *)
(* create_expense, or update_expense of an expense of the caller, with an  *)
(* amount outside that range answers 422 and changes nothing.              *)
C19_AmountRange ==
    [][ /\ \A e \in expenses' : ExpenseCreateValid(e.amount)
        /\ reply' # {} =>
             LET r == Replied'
             IN (/\ r.op \in {"create_expense", "update_expense"}
                 /\ r.op = "update_expense"
                    => \E e \in expenses : e.id = r.id /\ e.user_id = r.user
                 /\ r.body.amount # <<>>
                 /\ ~ExpenseCreateValid(r.body.amount[1]))
                => /\ r.status_code = 422
                   /\ expenses' = expenses
      ]_vars

(* C20: a user who has just registered has the five default categories.    *)
C20_DefaultCategories ==
    (reply # {} /\ Replied.op = "register" /\ Replied.status_code = 201)
    => \A name \in get_default_categories :
          \E c \in categories :
             c.user_id = Replied.user /\ c.name = name

-----------------------------------------------------------------------------
(* A password of at least 8 characters with upper-case letters, lower-case *)
(* letters and digits and no special character                             *)
PlainPassword(password) ==
    /\ Len(password) >= 8
    /\ re_search(UpperCase, password)
    /\ re_search(LowerCase, password)
    /\ re_search(Digits, password)
    /\ ~re_search(special_chars, password)

(* C21: registering an unused email with such a password (as               *)
(* 'testPass123') answers 201 and creates the user.                        *)
C21_PlainPasswordRegisters ==
    [][ \A email \in Emails, password \in Passwords :
          (/\ Register(email, password)
           /\ email \notin users
           /\ PlainPassword(password))
          => /\ Replied'.status_code = 201
             /\ email \in users'
      ]_vars

-----------------------------------------------------------------------------
(* C22: every entry present in the store of a limiter has count >= 1: no   *)
(* call stores a count of 0 or less, and the entries a call finds expired  *)
(* are gone from the store, not kept with a zero count.                    *)
C22_CountPositive ==
    /\ \A key \in DOMAIN cache : cache[key].count >= 1
    /\ \A key \in DOMAIN isolated : isolated[key].count >= 1
    /\ LastChecked =>
          \A key \in last.removed \ {LastKey} : key \notin DOMAIN cache

(* A call has swept the expired entry of another key and opened a window   *)
(* for its own key.                                                        *)
C22_Witness ==
    /\ LastChecked
    /\ last.removed \ {LastKey} # {}
    /\ LastKey \in DOMAIN cache
    /\ cache[LastKey].count = 1

-----------------------------------------------------------------------------
(* The arguments the configuration was constructed with *)
Given == CHOOSE g \in given : TRUE

(* C23: the limit applied to authenticated callers is the                  *)
(* auth_requests_limit passed to RateLimitConfig whenever one is passed,   *)
(* whatever integer it is, and 2 * requests_limit when none is passed.     *)
C23_AuthLimitAsPassed ==
    given # {} =>
        /\ config.auth_requests_limit =
              IF Given.auth_requests_limit # <<>>
              THEN Given.auth_requests_limit[1]
              ELSE 2 * Given.requests_limit
        /\ (LastChecked /\ LastRequest.user # None) =>
              EffectiveLimit(config, LastRequest)
                 = config.auth_requests_limit

-----------------------------------------------------------------------------
(* The limit that applies to a key: auth_requests_limit for a "user:" key, *)
(* requests_limit for an "ip:" key                                         *)
LimitOfKey(cfg, key) ==
    IF startswith(key, "user:") THEN cfg.auth_requests_limit
    ELSE cfg.requests_limit

(* C24: with requests_limit >= 1 and auth_requests_limit >= 1, the count   *)
(* of every stored entry is at most the limit that applies to its key, in  *)
(* every reachable state.                                                  *)
C24_CountWithinLimit ==
    (config.requests_limit >= 1 /\ config.auth_requests_limit >= 1) =>
        \A key \in DOMAIN cache :
           cache[key].count <= LimitOfKey(config, key)

(* Both callers have just been denied or stand at their limits, which      *)
(* differ, after a window has rolled over.                                 *)
C24_Witness ==
    /\ config.requests_limit >= 1
    /\ config.auth_requests_limit > config.requests_limit
    /\ LastChecked /\ ~LastResult.allowed
    /\ \A request \in LimitRequests :
          /\ get_cache_key(request) \in DOMAIN cache
          /\ cache[get_cache_key(request)].count
                = EffectiveLimit(config, request)
          /\ cache[get_cache_key(request)].timestamp > 0

-----------------------------------------------------------------------------
(* C25: for a key with limit L >= 1, the admitted calls of any interval    *)
(* [s, s + window_size) are at most 2 * L - 1.  recent holds, per key, the *)
(* admitted calls of the window_size seconds that end with the reading     *)
(* `now` of the last call; every interval with an admitted call in it is   *)
(* contained in such a stretch.                                            *)
C25_BurstBound ==
    \A key \in DOMAIN recent :
       LimitOfKey(config, key) >= 1 =>
          Len(recent[key]) <= 2 * LimitOfKey(config, key) - 1

-----------------------------------------------------------------------------
(* C26: a denied check leaves the entry of its key as it was, so the       *)
(* window of a key keeps the start its first call gave it however many     *)
(* calls are denied in it, and a call for a key made at or after           *)
(* window_start + window_size is admitted.                                 *)
C26_DenialKeepsWindow ==
    /\ \A key \in DOMAIN seen :
          /\ key \in DOMAIN cache
          /\ cache[key].timestamp = seen[key].t0
    /\ (LastChecked /\ ~LastResult.allowed) =>
          /\ last.prior # {}
          /\ LastKey \in DOMAIN cache
          /\ cache[LastKey] = LastPrior
    /\ (LastChecked /\ last.prior # {}
          /\ last.now >= LastPrior.timestamp + ConfiguredWindow) =>
          LastResult.allowed

(* A call beyond the limit is denied later than the window of its key      *)
(* began, and the entry still has the start and the count of the window.   *)
C26_Witness ==
    /\ LastChecked /\ ~LastResult.allowed
    /\ last.now > LastPrior.timestamp
    /\ last.nth = CallCap(config, LastRequest)
    /\ cache[LastKey].count < last.nth
    /\ cache[LastKey].timestamp = LastPrior.timestamp

-----------------------------------------------------------------------------
(* The window of the entry the call found was still open at both clock     *)
(* readings of the call.                                                   *)
LastInWindow ==
    /\ last.prior # {}
    /\ last.now2 - LastPrior.timestamp < ConfiguredWindow

(* C27: the first call for a key that has no entry is admitted and stored  *)
(* with count 1 whatever the limit is; with a limit of 0 or less one call  *)
(* per key and window is admitted, and the calls that follow in the window *)
(* are denied.                                                             *)
C27_FirstCallAdmitted ==
    LastChecked =>
        /\ last.prior = {} =>
              /\ LastResult.allowed
              /\ cache[LastKey] = [timestamp |-> last.now, count |-> 1]
        /\ EffectiveLimit(config, LastRequest) <= 0 =>
              /\ LastResult.allowed = ~LastInWindow
              /\ cache[LastKey].count = 1

(* With a limit below 1 the second call of a window has been denied. *)
C27_Witness ==
    /\ LastChecked
    /\ EffectiveLimit(config, LastRequest) <= 0
    /\ last.nth = 2
    /\ ~LastResult.allowed
    /\ cache[LastKey].count = 1

-----------------------------------------------------------------------------
(* C28: the general limiter checks a request before the strict limiter     *)
(* does.  A request the general limiter admits is counted in the general   *)
(* store, and stays counted there when the strict limiter then denies it;  *)
(* a request the general limiter denies goes no further and leaves the     *)
(* store of the strict limiter as it was.                                  *)
C28_GeneralBeforeStrict ==
    [][ (inflight # {} /\ inflight' # {} /\ inflight' # inflight) =>
          LET before == InFlight
              after == InFlight'
              key == get_cache_key(after.request)
          IN /\ "strict" \in after.checked_by
                => "general" \in after.checked_by
             /\ (before.stage = "general" /\ "general" \in after.checked_by
                   /\ after.denied_by = {})
                => /\ key \in DOMAIN stores'["general"]
                   /\ \/ stores'["general"][key].count = 1
                      \/ /\ key \in DOMAIN stores["general"]
                         /\ stores'["general"][key].count
                               = stores["general"][key].count + 1
             /\ (before.stage = "strict" /\ after.denied_by = {"strict"})
                => /\ "general" \in before.checked_by
                   /\ stores'["general"] = stores["general"]
                   /\ key \in DOMAIN stores["general"]
             /\ (before.stage = "general" /\ after.denied_by = {"general"})
                => /\ after.stage = "done"
                   /\ "strict" \notin after.checked_by
                   /\ stores'["strict"] = stores["strict"]
      ]_vars

(* The general limiter has denied a request at its limit of 100; the       *)
(* strict limiter, which denied the requests before it, still has the      *)
(* caller at 5.                                                            *)
C28_Witness ==
    /\ inflight # {}
    /\ InFlight.stage = "done"
    /\ InFlight.denied_by = {"general"}
    /\ InFlight.checked_by = {"general"}
    /\ FlightKey \in DOMAIN stores["general"]
    /\ FlightKey \in DOMAIN stores["strict"]
    /\ stores["general"][FlightKey].count = GeneralRequestsLimit
    /\ stores["strict"][FlightKey].count = StrictRequestsLimit

-----------------------------------------------------------------------------
(* The request has reached the handler of its expense route. *)
ReachedHandler(f) ==
    /\ ExpenseRoute(f.request)
    /\ f.stage = "done"
    /\ f.denied_by = {}

-----------------------------------------------------------------------------
(* C30: of create_category calls of one user with one name that run        *)
(* concurrently, at most one succeeds: the user never has two stored       *)
(* categories of that name.                                                *)
C30_OneCreateSucceeds ==
    \A c \in categories :
       \A d \in categories :
          (c.user_id = d.user_id /\ c.name = d.name) => c = d

====
